---------------------------- MODULE Spec2Model ----------------------------
(***************************************************************************)
(* Model of vk.py: VKParser (login_vk, _make_api_request, get_all_posts,   *)
(* delete_all_posts, delete_posts_with_confirmation, _delete_posts) and    *)
(* the menu loop of main().  The remote VK API and the console are the     *)
(* environment: every API response and every typed line is drawn from a    *)
(* small set.                                                              *)
(***************************************************************************)
EXTENDS Integers, Sequences, FiniteSets, TLC

VARIABLES
    pc,             \* position of the single thread of control
    action,         \* menu branch being executed: none/export/count/fast/thorough
    access_token,   \* VKParser.access_token ("None" before login)
    user_id,        \* VKParser.user_id (0 stands for None)
    wall,           \* remote wall: sequence of post ids, newest first
    count,          \* get_all_posts: page size
    offset,         \* get_all_posts: offset
    all_posts,      \* get_all_posts: all_posts
    response,       \* result of the last _make_api_request
    posts,          \* caller's local `posts` (value returned by get_all_posts)
    i,              \* delete loops: 1-based index of enumerate(posts, 1)
    deleted_count,  \* delete loops: deleted_count
    error_count,    \* delete loops: error_count
    confirmation,   \* delete_all_posts: confirmation
    confirmation1,  \* delete_posts_with_confirmation: confirmation1
    confirmation2,  \* delete_posts_with_confirmation: confirmation2
    result,         \* value the delete method returned to main: none/True/False
    prompted,       \* confirmation prompts shown by input() in this menu action
    gate,           \* outcome of the confirmation gate in this menu action
    offsets,        \* offsets requested by wall.get in the current enumeration
    enum_state,     \* current enumeration: none/running/done/failed
    wall0,          \* remote wall when the current enumeration started
    delete_calls,   \* post ids sent to wall.delete in this menu action
    trace,          \* API calls, delays and answered confirmation prompts
                    \* of this menu action (of login before the menu), in order
    output,         \* diagnostic lines printed by the last step
    export_posts,   \* extract_text_from_posts: the argument posts
    export_k,       \* extract_text_from_posts: posts iterated so far
    texts           \* extract_text_from_posts: texts

sessionVars == <<access_token, user_id>>
enumVars    == <<offset, all_posts, offsets, enum_state, wall0>>
loopVars    == <<i, deleted_count, error_count, delete_calls>>
gateVars    == <<confirmation, confirmation1, confirmation2, prompted, gate>>
exportVars  == <<export_posts, export_k, texts>>
vars == <<pc, action, access_token, user_id, wall, count, offset, all_posts,
          response, posts, i, deleted_count, error_count, confirmation,
          confirmation1, confirmation2, result, prompted, gate, offsets,
          enum_state, wall0, delete_calls, trace, output, export_posts,
          export_k, texts>>

---------------------------------------------------------------------------
(* Bounds of the model *)

\* largest number of posts on the remote wall
MaxWall == 5
\* largest page size the enumeration is run with (the script uses 100)
MaxCount == 3

---------------------------------------------------------------------------
(* JSON values and API results *)

JInt(k)    == [t |-> "int",    n |-> k, items |-> <<>>]
JTrue      == [t |-> "bool",   n |-> 1, items |-> <<>>]
JList(s)   == [t |-> "array",  n |-> 0, items |-> s]
JItems(s)  == [t |-> "object", n |-> 0, items |-> s]
JNull      == [t |-> "null",   n |-> 0, items |-> <<>>]

\* what _make_api_request returns: None after an exception, else the parsed
\* JSON object
ApiNone        == [kind |-> "None", keys |-> {},           response |-> JNull]
ApiEmpty       == [kind |-> "dict", keys |-> {},           response |-> JNull]
ApiError       == [kind |-> "dict", keys |-> {"error"},    response |-> JNull]
ApiResponse(v) == [kind |-> "dict", keys |-> {"response"}, response |-> v]

\* Python truthiness of an API result: None and {} are falsy
Truthy(r) == r.kind = "dict" /\ r.keys # {}

\* Python `key in r` for a dict r
HasKey(r, key) == key \in r.keys

\* Python `v == 1`: bool is a subclass of int, so True == 1
PyEqualsOne(v) == v.t \in {"int", "bool"} /\ v.n = 1

\* the sequence s without its first k elements, cut to at most c elements
Page(s, k, c) ==
    IF k >= Len(s) THEN <<>>
    ELSE SubSeq(s, k + 1, IF k + c <= Len(s) THEN k + c ELSE Len(s))

\* s without the element id
Remove(s, id) == SelectSeq(s, LAMBDA x : x # id)

\* the wall of n posts, newest first: <<n, n-1, .., 1>>
InitialWall(n) == [k \in 1..n |-> n + 1 - k]

---------------------------------------------------------------------------
(* The environment: what the console and the remote API can answer *)

\* lines typed at the access_token prompt
TokenInputs == {"", " ", "tok", " tok "}

\* lines typed at the menu prompt
ChoiceInputs == {"0", "1", "2", "3", "4", " 3 ", "9"}

\* lines typed at a confirmation prompt
ConfirmInputs == {"DELETE ALL", "delete all", "DELETE ALL ", "",
                  "DELETE MY POSTS", "delete my posts", " DELETE MY POSTS",
                  "YES I AM SURE", "yes i am sure", "YES"}

\* str.strip() on the lines above
Strip(s) ==
    CASE s = " "                -> ""
      [] s = " tok "            -> "tok"
      [] s = " 3 "              -> "3"
      [] s = "DELETE ALL "      -> "DELETE ALL"
      [] s = " DELETE MY POSTS" -> "DELETE MY POSTS"
      [] OTHER                  -> s

\* str.upper() on the lines above
Upper(s) ==
    CASE s = "delete all"      -> "DELETE ALL"
      [] s = "delete my posts" -> "DELETE MY POSTS"
      [] s = "yes i am sure"   -> "YES I AM SURE"
      [] OTHER                 -> s

\* account ids users.get can report
AccountIds == {7}

\* results of _make_api_request('users.get', {})
UsersGetResults ==
    {ApiNone, ApiError, ApiEmpty, ApiResponse(JList(<<>>))}
        \cup {ApiResponse(JList(<<u>>)) : u \in AccountIds}

\* results of _make_api_request('wall.get', {owner_id, count: c, offset: k})
WallGetResults(w, k, c) ==
    {ApiNone, ApiError, ApiEmpty, ApiResponse(JItems(Page(w, k, c)))}

\* results of _make_api_request('wall.delete', {owner_id, post_id: id})
\* together with the remote wall afterwards; only the success sentinel
\* tells that the post is gone, a lost reply leaves both possible
WallDeleteResults(w, id) ==
    {[resp |-> ApiResponse(JInt(1)), wall |-> Remove(w, id)]}
        \cup {[resp |-> r, wall |-> w] :
                r \in {ApiError, ApiEmpty, ApiResponse(JInt(0)),
                       ApiResponse(JInt(2)), ApiResponse(JTrue)}}
        \cup {[resp |-> ApiNone, wall |-> x] : x \in {w, Remove(w, id)}}

---------------------------------------------------------------------------
(* Decisions taken by the code *)

\* a first page requested one item too far
InitialOffsetOneBased == 0 + 1

\* get_all_posts: offset = 0
InitialOffset == 0

\* an offset advanced by one item instead of one page
NextOffsetByOne(k, c) == k + 1

\* get_all_posts: offset += count
NextOffset(k, c) == k + c

\* a failed fetch that throws the collected pages away
ResultOnFailureEmpty(acc) == <<>>

\* get_all_posts: `break` after a failed fetch, then `return all_posts`
ResultOnFailure(acc) == acc

\* get_all_posts: `if not response or 'response' not in response`
FetchFailed(r) == ~Truthy(r) \/ ~HasKey(r, "response")

\* get_all_posts: `if not posts` on the fetched page
EmptyPage(page) == page = <<>>

\* a loop that goes on after a short page
LastPageNever(page, c) == FALSE

\* a full page taken for the last one
LastPageOrFull(page, c) == Len(page) <= c

\* get_all_posts: `if len(posts) < count`
LastPage(page, c) == Len(page) < c

\* a gate that strips the typed line before comparing
FastGatePassesStripped(s) == Strip(s) = "DELETE ALL"

\* delete_all_posts: `if confirmation != "DELETE ALL"` does not return
FastGatePasses(s) == s = "DELETE ALL"

\* a first stage that ignores case
Stage1PassesAnyCase(s) == Upper(s) = "DELETE MY POSTS"

\* delete_posts_with_confirmation: `if confirmation1 != "DELETE MY POSTS"`
\* does not return
Stage1Passes(s) == s = "DELETE MY POSTS"

\* a second stage that accepts any line starting with YES
Stage2PassesYes(s) == s \in {"YES I AM SURE", "YES"}

\* delete_posts_with_confirmation: `if confirmation2 != "YES I AM SURE"`
\* does not return
Stage2Passes(s) == s = "YES I AM SURE"

\* delete_all_posts: `response and 'response' in response and
\* response['response'] == 1`
DeleteAllPostsOk(r) ==
    Truthy(r) /\ HasKey(r, "response") /\ PyEqualsOne(r.response)

\* delete_all_posts: `if 'error' in response` raises TypeError on None
ErrorLookupRaises(r) == r.kind = "None"

\* _delete_posts: the same test as in delete_all_posts
DeletePostsOk(r) ==
    Truthy(r) /\ HasKey(r, "response") /\ PyEqualsOne(r.response)

\* _make_api_request: the line printed by `except Exception as e`
RequestDiagnostics(r) ==
    IF r.kind = "None" THEN <<"request error">> ELSE <<>>

\* login_vk: lines printed when the token is refused
LoginDiagnostics(r) == RequestDiagnostics(r) \o <<"authorization error">>

\* get_all_posts: lines printed for a failed page fetch
FetchDiagnostics(r) == RequestDiagnostics(r) \o <<"fetch error">>

\* delete_all_posts: lines printed in the else branch of the loop; on None
\* the lookup of 'error' raises and the interpreter prints the traceback
DeleteAllPostsDiagnostics(r) ==
    RequestDiagnostics(r) \o <<"delete error">>
        \o (IF ErrorLookupRaises(r) THEN <<"Traceback">>
            ELSE IF HasKey(r, "error") THEN <<"error code", "error message">>
            ELSE <<>>)

\* _delete_posts: lines printed in the else branch of the loop
DeletePostsDiagnostics(r) == RequestDiagnostics(r) \o <<"delete error">>

\* the post of iteration k of `for i, post in enumerate(posts, 1)` in
\* delete_all_posts
DeleteAllPostsTarget(ps, k) == ps[k]

\* the post of iteration k of `for i, post in enumerate(posts, 1)` in
\* _delete_posts
DeletePostsTarget(ps, k) == ps[k]

\* main: the line printed for the value a delete method returned
MainReport(res) ==
    IF res = "True" THEN "finished successfully" ELSE "finished with errors"

\* a summary that reports success whatever was counted
SummaryAlwaysTrue(errors) == "True"

\* both delete methods: return error_count == 0
Summary(errors) == IF errors = 0 THEN "True" ELSE "False"

---------------------------------------------------------------------------
(* Initial state: VKParser.__init__ has run, login_vk is about to read the *)
(* token; the wall holds n posts and pages are fetched c at a time         *)

Init ==
    /\ pc = "login"
    /\ action = "none"
    /\ access_token = "None"
    /\ user_id = 0
    /\ \E n \in 0..MaxWall : wall = InitialWall(n)
    /\ count \in 1..MaxCount
    /\ offset = 0
    /\ all_posts = <<>>
    /\ response = ApiNone
    /\ posts = <<>>
    /\ i = 0
    /\ deleted_count = 0
    /\ error_count = 0
    /\ confirmation = "None"
    /\ confirmation1 = "None"
    /\ confirmation2 = "None"
    /\ result = "none"
    /\ prompted = <<>>
    /\ gate = "none"
    /\ offsets = <<>>
    /\ enum_state = "none"
    /\ wall0 = <<>>
    /\ delete_calls = <<>>
    /\ trace = <<>>
    /\ output = <<>>
    /\ export_posts = <<>>
    /\ export_k = 0
    /\ texts = <<>>

---------------------------------------------------------------------------
(* login_vk and the test `if parser.login_vk()` of main *)

LoginVk ==
    /\ pc = "login"
    /\ \E typed \in TokenInputs, r \in UsersGetResults :
         LET token == Strip(typed) IN
         /\ access_token' = token
         /\ IF token = ""
            THEN \* `if self.access_token` is false: return False
                 /\ pc' = "auth_failed"
                 /\ output' = <<>>
                 /\ UNCHANGED <<user_id, response, trace>>
            ELSE /\ response' = r
                 /\ trace' = Append(trace, "users.get")
                 /\ IF Truthy(r) /\ HasKey(r, "response")
                    THEN IF r.response.items = <<>>
                         THEN \* user_info['response'][0] raises IndexError
                              /\ pc' = "crashed"
                              /\ output' = <<"Traceback">>
                              /\ UNCHANGED user_id
                         ELSE /\ user_id' = r.response.items[1]
                              /\ pc' = "menu"
                              /\ output' = <<>>
                    ELSE /\ pc' = "auth_failed"
                         /\ output' = LoginDiagnostics(r)
                         /\ UNCHANGED user_id
    /\ UNCHANGED <<action, wall, count, posts, result>>
    /\ UNCHANGED <<enumVars, loopVars, gateVars, exportVars>>

---------------------------------------------------------------------------
(* get_all_posts *)

\* the call: locals of a fresh frame (the guard `if not self.access_token`
\* never fires: the menu is reached only with a non-empty token)
CallGetAllPosts ==
    /\ all_posts' = <<>>
    /\ offset' = InitialOffset
    /\ offsets' = <<>>
    /\ enum_state' = "running"
    /\ wall0' = wall
    /\ pc' = "enum"

\* delete_all_posts after `posts = self.get_all_posts()`, up to the loop
ReturnToDeleteAllPosts(ret) ==
    IF ret = <<>>
    THEN \* "Постов для удаления нет.": return True
         /\ pc' = "menu"
         /\ result' = "True"
         /\ UNCHANGED <<i, deleted_count, error_count, prompted>>
    ELSE /\ pc' = "fast_loop"
         /\ i' = 1
         /\ deleted_count' = 0
         /\ error_count' = 0
         /\ UNCHANGED <<result, prompted>>

\* a thorough delete that starts _delete_posts right after the enumeration
ReturnToDeleteUnconfirmed(ret) ==
    IF ret = <<>>
    THEN /\ pc' = "menu"
         /\ result' = "True"
         /\ UNCHANGED <<i, deleted_count, error_count, prompted>>
    ELSE /\ pc' = "thorough_loop"
         /\ i' = 1
         /\ deleted_count' = 0
         /\ error_count' = 0
         /\ UNCHANGED <<result, prompted>>

\* delete_posts_with_confirmation after `posts = self.get_all_posts()`, up
\* to the first confirmation prompt
ReturnToDeleteWithConfirmation(ret) ==
    IF ret = <<>>
    THEN \* "Постов для удаления нет.": return True
         /\ pc' = "menu"
         /\ result' = "True"
         /\ UNCHANGED <<i, deleted_count, error_count, prompted>>
    ELSE /\ pc' = "confirm1"
         /\ prompted' = Append(prompted, "DELETE MY POSTS")
         /\ UNCHANGED <<i, deleted_count, error_count, result>>

\* main after `posts = parser.get_all_posts()` in choices 1 and 2: the
\* export or the count is printed and the menu is shown again
ReturnToMain(ret) ==
    /\ pc' = "menu"
    /\ UNCHANGED <<i, deleted_count, error_count, result, prompted>>

\* a caller that keeps only the first post of the returned list
ReturnToCallerTruncated(act, ret) ==
    /\ posts' = SubSeq(ret, 1, IF Len(ret) >= 1 THEN 1 ELSE 0)
    /\ CASE act = "fast"     -> ReturnToDeleteAllPosts(ret)
         [] act = "thorough" -> ReturnToDeleteWithConfirmation(ret)
         [] OTHER            -> ReturnToMain(ret)

\* `return all_posts` to the menu branch act that made the call
ReturnToCaller(act, ret) ==
    /\ posts' = ret
    /\ CASE act = "fast"     -> ReturnToDeleteAllPosts(ret)
         [] act = "thorough" -> ReturnToDeleteWithConfirmation(ret)
         [] OTHER            -> ReturnToMain(ret)

\* one iteration of `while True`
FetchPage ==
    /\ pc = "enum"
    /\ \E r \in WallGetResults(wall, offset, count) :
         /\ response' = r
         /\ offsets' = Append(offsets, offset)
         /\ IF FetchFailed(r)
            THEN /\ enum_state' = "failed"
                 /\ trace' = Append(trace, "wall.get")
                 /\ output' = FetchDiagnostics(r)
                 /\ UNCHANGED <<all_posts, offset>>
                 /\ ReturnToCaller(action, ResultOnFailure(all_posts))
            ELSE LET page == r.response.items IN
                 IF EmptyPage(page)
                 THEN /\ enum_state' = "done"
                      /\ trace' = Append(trace, "wall.get")
                      /\ output' = <<>>
                      /\ UNCHANGED <<all_posts, offset>>
                      /\ ReturnToCaller(action, all_posts)
                 ELSE /\ all_posts' = all_posts \o page
                      /\ offset' = NextOffset(offset, count)
                      \* time.sleep(0.5) comes before the test of the page size
                      /\ trace' = trace \o <<"wall.get", "sleep 0.5">>
                      /\ output' = <<>>
                      /\ IF LastPage(page, count)
                         THEN /\ enum_state' = "done"
                              /\ ReturnToCaller(action, all_posts \o page)
                         ELSE /\ enum_state' = "running"
                              /\ UNCHANGED <<pc, posts, i, deleted_count,
                                             error_count, result, prompted>>
    /\ UNCHANGED <<action, sessionVars, wall, count, wall0, delete_calls,
                   confirmation, confirmation1, confirmation2, gate,
                   exportVars>>

---------------------------------------------------------------------------
(* main: one pass of the menu loop up to the first prompt or API call *)

Menu ==
    /\ pc = "menu"
    /\ \E typed \in ChoiceInputs :
         LET choice == Strip(typed) IN
         /\ action' = CASE choice = "1" -> "export"
                        [] choice = "2" -> "count"
                        [] choice = "3" -> "fast"
                        [] choice = "4" -> "thorough"
                        [] OTHER        -> "none"
         /\ CASE choice \in {"1", "2", "4"} ->
                   /\ CallGetAllPosts
                   /\ prompted' = <<>>
              [] choice = "3" ->
                   /\ pc' = "fast_confirm"
                   /\ prompted' = <<"DELETE ALL">>
                   /\ all_posts' = <<>>
                   /\ offset' = 0
                   /\ offsets' = <<>>
                   /\ enum_state' = "none"
                   /\ wall0' = <<>>
              [] OTHER ->
                   /\ pc' = IF choice = "0" THEN "exited" ELSE "menu"
                   /\ prompted' = <<>>
                   /\ all_posts' = <<>>
                   /\ offset' = 0
                   /\ offsets' = <<>>
                   /\ enum_state' = "none"
                   /\ wall0' = <<>>
    /\ posts' = <<>>
    /\ i' = 0
    /\ deleted_count' = 0
    /\ error_count' = 0
    /\ delete_calls' = <<>>
    /\ confirmation' = "None"
    /\ confirmation1' = "None"
    /\ confirmation2' = "None"
    /\ gate' = "none"
    /\ result' = "none"
    /\ trace' = <<>>
    /\ output' = <<>>
    /\ UNCHANGED <<sessionVars, wall, count, response, exportVars>>

---------------------------------------------------------------------------
(* delete_all_posts: the fast gate, then the enumeration, then the loop *)

FastConfirm ==
    /\ pc = "fast_confirm"
    /\ \E typed \in ConfirmInputs :
         /\ confirmation' = typed
         /\ IF FastGatePasses(typed)
            THEN /\ gate' = "passed"
                 /\ CallGetAllPosts
                 /\ output' = <<>>
                 /\ UNCHANGED result
            ELSE \* "Операция отменена.": return False
                 /\ gate' = "aborted"
                 /\ pc' = "menu"
                 /\ result' = "False"
                 /\ output' = <<"cancelled">>
                 /\ UNCHANGED enumVars
    /\ trace' = Append(trace, "prompt")
    /\ UNCHANGED <<action, sessionVars, wall, count, response, posts,
                   loopVars, confirmation1, confirmation2, prompted,
                   exportVars>>

\* one iteration of `for i, post in enumerate(posts, 1)` in delete_all_posts
DeleteAllPostsStep ==
    /\ pc = "fast_loop"
    /\ \E out \in WallDeleteResults(wall, DeleteAllPostsTarget(posts, i)) :
         /\ response' = out.resp
         /\ wall' = out.wall
         /\ delete_calls' =
                Append(delete_calls, DeleteAllPostsTarget(posts, i))
         /\ IF DeleteAllPostsOk(out.resp)
            THEN /\ deleted_count' = deleted_count + 1
                 /\ output' = <<>>
                 /\ trace' = trace \o <<"wall.delete", "sleep 1.0">>
                 /\ UNCHANGED error_count
                 /\ IF i = Len(posts)
                    THEN /\ pc' = "menu"
                         /\ result' = Summary(error_count)
                         /\ UNCHANGED i
                    ELSE /\ i' = i + 1
                         /\ UNCHANGED <<pc, result>>
            ELSE /\ error_count' = error_count + 1
                 /\ output' = DeleteAllPostsDiagnostics(out.resp)
                 /\ UNCHANGED deleted_count
                 /\ IF ErrorLookupRaises(out.resp)
                    THEN \* uncaught TypeError leaves main before
                         \* time.sleep(1)
                         /\ pc' = "crashed"
                         /\ trace' = Append(trace, "wall.delete")
                         /\ UNCHANGED <<i, result>>
                    ELSE /\ trace' = trace \o <<"wall.delete", "sleep 1.0">>
                         /\ IF i = Len(posts)
                            THEN /\ pc' = "menu"
                                 /\ result' = Summary(error_count + 1)
                                 /\ UNCHANGED i
                            ELSE /\ i' = i + 1
                                 /\ UNCHANGED <<pc, result>>
    /\ UNCHANGED <<action, sessionVars, count, posts, enumVars, gateVars,
                   exportVars>>

---------------------------------------------------------------------------
(* delete_posts_with_confirmation: the enumeration, then the two-stage     *)
(* gate, then _delete_posts                                                *)

Confirm1 ==
    /\ pc = "confirm1"
    /\ \E typed \in ConfirmInputs :
         /\ confirmation1' = typed
         /\ IF Stage1Passes(typed)
            THEN /\ pc' = "confirm2"
                 /\ prompted' = Append(prompted, "YES I AM SURE")
                 /\ output' = <<>>
                 /\ UNCHANGED <<gate, result>>
            ELSE /\ gate' = "aborted"
                 /\ pc' = "menu"
                 /\ result' = "False"
                 /\ output' = <<"cancelled">>
                 /\ UNCHANGED prompted
    /\ trace' = Append(trace, "prompt")
    /\ UNCHANGED <<action, sessionVars, wall, count, response, posts,
                   enumVars, loopVars, confirmation, confirmation2,
                   exportVars>>

Confirm2 ==
    /\ pc = "confirm2"
    /\ \E typed \in ConfirmInputs :
         /\ confirmation2' = typed
         /\ IF Stage2Passes(typed)
            THEN \* return self._delete_posts(posts)
                 /\ gate' = "passed"
                 /\ pc' = "thorough_loop"
                 /\ i' = 1
                 /\ deleted_count' = 0
                 /\ error_count' = 0
                 /\ output' = <<>>
                 /\ UNCHANGED result
            ELSE /\ gate' = "aborted"
                 /\ pc' = "menu"
                 /\ result' = "False"
                 /\ output' = <<"cancelled">>
                 /\ UNCHANGED <<i, deleted_count, error_count>>
    /\ trace' = Append(trace, "prompt")
    /\ UNCHANGED <<action, sessionVars, wall, count, response, posts,
                   enumVars, delete_calls, confirmation, confirmation1,
                   prompted, exportVars>>

\* one iteration of `for i, post in enumerate(posts, 1)` in _delete_posts
DeletePostsStep ==
    /\ pc = "thorough_loop"
    /\ \E out \in WallDeleteResults(wall, DeletePostsTarget(posts, i)) :
         /\ response' = out.resp
         /\ wall' = out.wall
         /\ delete_calls' = Append(delete_calls, DeletePostsTarget(posts, i))
         /\ IF DeletePostsOk(out.resp)
            THEN /\ deleted_count' = deleted_count + 1
                 /\ output' = <<>>
                 /\ UNCHANGED error_count
            ELSE /\ error_count' = error_count + 1
                 /\ output' = DeletePostsDiagnostics(out.resp)
                 /\ UNCHANGED deleted_count
         /\ trace' = trace \o <<"wall.delete", "sleep 1.0">>
         /\ IF i = Len(posts)
            THEN /\ pc' = "menu"
                 /\ result' = Summary(error_count')
                 /\ UNCHANGED i
            ELSE /\ i' = i + 1
                 /\ UNCHANGED <<pc, result>>
    /\ UNCHANGED <<action, sessionVars, count, posts, enumVars, gateVars,
                   exportVars>>

---------------------------------------------------------------------------

Next ==
    \/ LoginVk
    \/ Menu
    \/ FetchPage
    \/ FastConfirm
    \/ DeleteAllPostsStep
    \/ Confirm1
    \/ Confirm2
    \/ DeletePostsStep

Spec == Init /\ [][Next]_vars

---------------------------------------------------------------------------
(* Properties *)

\* a bulk-delete loop is running
InDeleteLoop == pc \in {"fast_loop", "thorough_loop"}

\* a bulk-delete loop was entered in this menu action
RunStarted == i >= 1

\* ceil(n / p) for p > 0
CeilDiv(n, p) == (n + p - 1) \div p

\* the first k elements of s (all of s when it is shorter)
Prefix(s, k) == SubSeq(s, 1, IF k <= Len(s) THEN k ELSE Len(s))

\* C1: a bulk-delete run over N enumerated posts, in either delete path and
\* whatever the outcome of each call, never stops before it has made exactly
\* N wall.delete calls, and ends with deleted_count + error_count = N
C1_EveryRunProcessesAllPosts ==
    (RunStarted /\ ~InDeleteLoop) =>
        /\ Len(delete_calls) = Len(posts)
        /\ deleted_count + error_count = Len(posts)

\* C2: every wall.delete call is made in a delete action whose confirmation
\* lines were typed, and accepted, earlier in that same menu action; the
\* gate steps and the menu step send no wall.delete and leave the wall alone
C2_DeleteOnlyBehindOwnGate ==
    [][/\ (delete_calls' # delete_calls /\ delete_calls' # <<>>) =>
             /\ gate = "passed"
             /\ action' = action
             /\ \/ /\ action = "fast"
                   /\ confirmation = "DELETE ALL"
                   /\ prompted = <<"DELETE ALL">>
                \/ /\ action = "thorough"
                   /\ confirmation1 = "DELETE MY POSTS"
                   /\ confirmation2 = "YES I AM SURE"
                   /\ prompted = <<"DELETE MY POSTS", "YES I AM SURE">>
       /\ pc \in {"menu", "fast_confirm", "confirm1", "confirm2"} =>
             /\ wall' = wall
             /\ delete_calls' \in {delete_calls, <<>>}
       /\ pc = "menu" =>
             /\ ~InDeleteLoop'
             /\ confirmation' = "None"
             /\ confirmation1' = "None"
             /\ confirmation2' = "None"
      ]_vars

\* C2 witness: a thorough delete has sent two wall.delete calls
C2_Witness ==
    /\ action = "thorough"
    /\ gate = "passed"
    /\ Len(delete_calls) >= 2

\* C3: delete_all_posts goes on to get_all_posts and the delete loop exactly
\* when the typed line is the literal "DELETE ALL"; any other line ends the
\* action with no wall.get and no wall.delete call
C3_FastGateExact ==
    (action = "fast" /\ pc # "fast_confirm") =>
        /\ (confirmation = "DELETE ALL") <=> (enum_state # "none")
        /\ (confirmation # "DELETE ALL") =>
              /\ pc = "menu"
              /\ result = "False"
              /\ offsets = <<>>
              /\ delete_calls = <<>>
        /\ RunStarted => confirmation = "DELETE ALL"

\* C3 witness: the literal was typed and the loop has deleted a post
C3_Witness ==
    /\ action = "fast"
    /\ confirmation = "DELETE ALL"
    /\ deleted_count >= 1

\* C4: delete_posts_with_confirmation enters _delete_posts exactly when the
\* first line is "DELETE MY POSTS" and the second "YES I AM SURE"; the second
\* prompt is shown only after the first line matched; without both matches
\* no wall.delete call is made and the wall is as it was enumerated
C4_ThoroughGateExact ==
    action = "thorough" =>
        /\ RunStarted <=> (/\ confirmation1 = "DELETE MY POSTS"
                           /\ confirmation2 = "YES I AM SURE")
        /\ (confirmation1 # "DELETE MY POSTS") =>
              /\ prompted \in {<<>>, <<"DELETE MY POSTS">>}
              /\ confirmation2 = "None"
              /\ pc # "confirm2"
        /\ ~RunStarted => (delete_calls = <<>> /\ wall = wall0)

\* C4 witness: stage 1 was refused with a line that differs only in case
C4_Witness ==
    /\ action = "thorough"
    /\ confirmation1 = "delete my posts"
    /\ pc = "menu"
    /\ posts # <<>>

\* C5: an enumeration in which no fetch failed returns the remote wall as it
\* was when the enumeration started: every item once, in the remote order
C5_EnumerationReturnsWall ==
    enum_state = "done" => posts = wall0

\* C5 witness: an error-free enumeration of more than one page
C5_Witness ==
    /\ enum_state = "done"
    /\ Len(posts) > count
    /\ posts = wall0

\* C6 as stated: an error-free enumeration of N >= 0 items in pages of P
\* makes ceil(N/P) fetches, plus one when N is a positive multiple of P
C6_FetchCountAsStated ==
    enum_state = "done" =>
        Len(offsets) = CeilDiv(Len(wall0), count)
                         + (IF Len(wall0) > 0 /\ Len(wall0) % count = 0
                            THEN 1 ELSE 0)

\* C6 amended: an error-free enumeration of N >= 0 items in pages of P makes
\* ceil(N/P) fetches, plus one when N is a multiple of P, zero included (the
\* empty wall costs one fetch)
C6_FetchCount ==
    enum_state = "done" =>
        Len(offsets) = CeilDiv(Len(wall0), count)
                         + (IF Len(wall0) % count = 0 THEN 1 ELSE 0)

\* C6 witness: two full pages, then the extra empty fetch
C6_Witness ==
    /\ enum_state = "done"
    /\ count >= 2
    /\ Len(wall0) = 2 * count
    /\ Len(offsets) = 3

\* C7: enumerating an empty wall returns the empty sequence after exactly
\* one fetch, made at offset 0
C7_EmptyWallOneFetch ==
    (enum_state \in {"done", "failed"} /\ wall0 = <<>>) =>
        /\ posts = <<>>
        /\ offsets = <<0>>

\* C7 witness: an answered enumeration of an empty wall
C7_Witness ==
    /\ enum_state = "done"
    /\ wall0 = <<>>
    /\ offsets = <<0>>

\* C8: a failed fetch ends get_all_posts in that same step, without an
\* exception, and the caller receives the items of the pages fetched before
\* it: the first (fetches - 1) * count items of the wall
C8_FailureReturnsFetchedPrefix ==
    [][/\ pc = "enum" => pc' # "crashed"
       /\ enum_state' = "failed" =>
             /\ pc' # "enum"
             /\ posts' = Prefix(wall0', (Len(offsets') - 1) * count')
             /\ Len(posts') = (Len(offsets') - 1) * count'
             /\ (pc = "enum" => offsets' = Append(offsets, offset))
             /\ (pc # "enum" => offsets' = offsets)
      ]_vars

\* C8 witness: the third fetch failed and two pages were returned
C8_Witness ==
    /\ enum_state = "failed"
    /\ Len(offsets) = 3
    /\ Len(posts) = 2 * count

\* C9: a wall.delete call adds to deleted_count only when its response is
\* {"response": 1}, and adds to error_count for every other outcome
C9_OnlySentinelCountsAsDeleted ==
    [][(InDeleteLoop /\ Len(delete_calls') = Len(delete_calls) + 1) =>
          IF response' = ApiResponse(JInt(1))
          THEN /\ deleted_count' = deleted_count + 1
               /\ error_count' = error_count
          ELSE /\ error_count' = error_count + 1
               /\ deleted_count' = deleted_count
      ]_vars

\* C10: once login has succeeded, no outcome of a wall.get or wall.delete
\* call ends the process; control stays in the menu loop
C10_NoCrashAfterLogin ==
    user_id # 0 => pc # "crashed"

\* the number of events e in the trace tr
Occurrences(tr, e) == Cardinality({k \in 1..Len(tr) : tr[k] = e})

\* C11: when users.get fails or names no account, login_vk returns False
\* with no user_id set, and no wall.get or wall.delete call is ever made
C11_FailedLookupIsAuthFailure ==
    (pc # "login" /\ user_id = 0) =>
        /\ pc = "auth_failed"
        /\ Occurrences(trace, "wall.get") = 0
        /\ Occurrences(trace, "wall.delete") = 0

\* C12: in both delete loops every wall.delete call, whatever it returned,
\* is directly followed by the delay of 1.0
C12_DelayAfterEveryDelete ==
    \A k \in 1..Len(trace) :
        trace[k] = "wall.delete" =>
            (k < Len(trace) /\ trace[k + 1] = "sleep 1.0")

\* the enumeration of this menu action has returned
EnumerationOver == enum_state \in {"done", "failed"}

\* position of an event in the flow of the delete action act: the thorough
\* flow enumerates, then asks, then deletes; the fast flow asks first
PhaseOf(act, e) ==
    CASE e \in {"wall.get", "sleep 0.5"} -> IF act = "fast" THEN 2 ELSE 1
      [] e = "prompt"                    -> IF act = "fast" THEN 1 ELSE 2
      [] OTHER                           -> 3

\* the events of the trace occur phase after phase
InFlowOrder(act, tr) ==
    \A j, k \in 1..Len(tr) :
        j < k => PhaseOf(act, tr[j]) <= PhaseOf(act, tr[k])

\* C13 as stated: in both delete flows a confirmation prompt is shown only
\* after the enumeration of the wall has completed
C13_EnumerationBeforeGateAsStated ==
    /\ pc \in {"fast_confirm", "confirm1", "confirm2"} => EnumerationOver
    /\ \A k \in 1..Len(trace) :
           trace[k] = "prompt" => \E j \in 1..(k - 1) : trace[j] = "wall.get"

\* C13 amended: the thorough flow enumerates the wall, then presents its
\* gate, then deletes; the fast flow presents its gate before anything else,
\* enumerates only after the gate passed, then deletes; in both flows the
\* deleter runs only after the gate passed and the enumeration returned
C13_FlowOrder ==
    action \in {"fast", "thorough"} =>
        /\ InFlowOrder(action, trace)
        /\ (action = "thorough" /\ pc \in {"confirm1", "confirm2"})
              => EnumerationOver
        /\ (action = "fast" /\ pc = "fast_confirm")
              => (enum_state = "none" /\ trace = <<>>)
        /\ (action = "fast" /\ enum_state # "none") => gate = "passed"
        /\ (InDeleteLoop \/ delete_calls # <<>>)
              => (gate = "passed" /\ EnumerationOver)

\* C13 witness: a fast delete that asked, then enumerated, then deleted
C13_Witness ==
    /\ action = "fast"
    /\ Len(trace) >= 3
    /\ trace[1] = "prompt"
    /\ trace[2] = "wall.get"
    /\ Occurrences(trace, "wall.delete") >= 1

\* the elements of the sequence s
Range(s) == {s[k] : k \in 1..Len(s)}

\* C14: the ids sent to wall.delete are those of the list returned by the
\* one enumeration of the same menu action, which is a snapshot of the wall
\* taken in that action; every wall.get of the action precedes every
\* wall.delete of the action
C14_DeletesTargetLatestEnumeration ==
    delete_calls # <<>> =>
        /\ EnumerationOver
        /\ posts = all_posts
        /\ all_posts = Prefix(wall0, Len(all_posts))
        /\ Range(delete_calls) \subseteq Range(all_posts)
        /\ Len(delete_calls) <= Len(all_posts)
        /\ Len(offsets) >= 1
        /\ Occurrences(trace, "wall.get") = Len(offsets)
        /\ \A j, k \in 1..Len(trace) :
               (trace[j] = "wall.get" /\ trace[k] = "wall.delete") => j < k

\* C14 witness: a finished thorough delete of a wall enumerated in two pages
C14_Witness ==
    /\ action = "thorough"
    /\ pc = "menu"
    /\ Len(offsets) >= 2
    /\ Len(delete_calls) >= 2
    /\ delete_calls = all_posts

\* C15: in a bulk-delete run the ids are sent one call at a time in the order
\* of the enumerated list, the i-th call for the i-th post, and after the run
\* the ids sent are the whole enumerated list whatever calls failed
C15_DeletesFollowEnumerationOrder ==
    RunStarted =>
        /\ delete_calls = Prefix(posts, Len(delete_calls))
        /\ InDeleteLoop => Len(delete_calls) = i - 1
        /\ ~InDeleteLoop => delete_calls = posts

\* C16: a refused confirmation leaves access_token and user_id as they were,
\* and what the delete method then reports to main differs from what is
\* reported for a run that ended with per-item errors
C16_AbortIsNotAnError ==
    [][(gate # "aborted" /\ gate' = "aborted") =>
          /\ UNCHANGED sessionVars
          /\ MainReport(result') # MainReport(Summary(1))
      ]_vars

\* C17: every failure is followed by at least one diagnostic line: a refused
\* login (empty token or failed users.get), a failed page fetch, a delete
\* call counted as an error
C17_EveryFailureIsReported ==
    [][(\/ pc = "login" /\ pc' = "auth_failed"
        \/ pc = "enum" /\ enum_state' = "failed"
        \/ InDeleteLoop /\ error_count' = error_count + 1)
          => output' # <<>>
      ]_vars

---------------------------------------------------------------------------
(* extract_text_from_posts, applied to lists of posts with a text field *)

\* most posts in a list given to extract_text_from_posts
MaxExportPosts == 2

\* length of the long post text (longer than the preview of 100 characters)
LongTextLen == 150

\* characters str.strip() removes
Whitespace == {" ", "\n"}

\* a text of LongTextLen visible characters
LongText == [k \in 1..LongTextLen |-> "x"]

\* post texts, as sequences of characters
ExportTexts ==
    {<<>>, <<" ">>, <<" ", "\n">>, <<"a">>, <<" ", "a">>, <<"b", " ">>,
     LongText}

\* posts: with a 'text' key, or without one
ExportPosts ==
    {[date |-> 1, has_text |-> TRUE, text |-> t] : t \in ExportTexts}
        \cup {[date |-> 2, has_text |-> FALSE, text |-> <<>>]}

\* the lists of at most MaxExportPosts posts
ExportLists ==
    UNION {[1..n -> ExportPosts] : n \in 0..MaxExportPosts}

RECURSIVE LStrip(_)
\* str.lstrip()
LStrip(t) ==
    IF t # <<>> /\ Head(t) \in Whitespace THEN LStrip(Tail(t)) ELSE t

RECURSIVE RStrip(_)
\* str.rstrip()
RStrip(t) ==
    IF t # <<>> /\ t[Len(t)] \in Whitespace
    THEN RStrip(SubSeq(t, 1, Len(t) - 1))
    ELSE t

\* str.strip()
StripText(t) == RStrip(LStrip(t))

\* a test that keeps every post with a non-empty text, blank or not
HasAnyText(p) == p.has_text /\ p.text # <<>>

\* extract_text_from_posts: `if 'text' in post and post['text'].strip()`
HasVisibleText(p) == p.has_text /\ StripText(p.text) # <<>>

\* time.strftime('%Y-%m-%d %H:%M:%S', time.localtime(post['date']))
FormatDate(d) == <<"%Y-%m-%d %H:%M:%S", d>>

\* extract_text_from_posts: the block appended for a post: the date line,
\* the text line and the rule of 50 dashes
Block(p) ==
    [date |-> FormatDate(p.date), text |-> p.text, rule |-> [k \in 1..50 |-> "-"]]

InitExtract ==
    /\ pc = "extract"
    /\ action = "export"
    /\ access_token = "tok"
    /\ user_id \in AccountIds
    /\ wall = <<>>
    /\ count = 1
    /\ offset = 0
    /\ all_posts = <<>>
    /\ response = ApiNone
    /\ posts = <<>>
    /\ i = 0
    /\ deleted_count = 0
    /\ error_count = 0
    /\ confirmation = "None"
    /\ confirmation1 = "None"
    /\ confirmation2 = "None"
    /\ result = "none"
    /\ prompted = <<>>
    /\ gate = "none"
    /\ offsets = <<>>
    /\ enum_state = "none"
    /\ wall0 = <<>>
    /\ delete_calls = <<>>
    /\ trace = <<>>
    /\ output = <<>>
    /\ export_posts \in ExportLists
    /\ export_k = 0
    /\ texts = <<>>

\* one iteration of `for post in posts`
ExtractStep ==
    /\ pc = "extract"
    /\ export_k < Len(export_posts)
    /\ export_k' = export_k + 1
    /\ texts' = IF HasVisibleText(export_posts[export_k + 1])
                THEN Append(texts, Block(export_posts[export_k + 1]))
                ELSE texts
    /\ UNCHANGED <<pc, action, sessionVars, wall, count, response, posts,
                   result, enumVars, loopVars, gateVars, trace, output,
                   export_posts>>

\* `return texts`
ExtractReturn ==
    /\ pc = "extract"
    /\ export_k = Len(export_posts)
    /\ pc' = "extracted"
    /\ UNCHANGED <<action, sessionVars, wall, count, response, posts,
                   result, enumVars, loopVars, gateVars, trace, output,
                   exportVars>>

NextExtract ==
    \/ ExtractStep
    \/ ExtractReturn

SpecExtract == InitExtract /\ [][NextExtract]_vars

\* the text t has a character that is not whitespace
Visible(t) == \E k \in 1..Len(t) : t[k] \notin Whitespace

\* the posts of the list ps that have a text with a visible character
VisiblePosts(ps) == SelectSeq(ps, LAMBDA p : p.has_text /\ Visible(p.text))

\* C18: extract_text_from_posts returns one block for each post whose text
\* has a visible character, none for the other posts, in the order of the
\* input, and each block holds the whole text of its post
C18_ExtractKeepsVisibleTexts ==
    pc = "extracted" =>
        /\ Len(texts) = Len(VisiblePosts(export_posts))
        /\ \A k \in 1..Len(texts) :
               /\ texts[k].text = VisiblePosts(export_posts)[k].text
               /\ Len(texts[k].text) = Len(VisiblePosts(export_posts)[k].text)
               /\ texts[k].date = FormatDate(VisiblePosts(export_posts)[k].date)

\* C18 witness: a blank post is skipped and the long text is kept whole
C18_Witness ==
    /\ pc = "extracted"
    /\ Len(export_posts) = 2
    /\ export_posts[1].text = <<" ", "\n">>
    /\ Len(texts) = 1
    /\ Len(texts[1].text) = LongTextLen

---------------------------------------------------------------------------

\* C19 as stated: a delete action that passed its gate returns True only if
\* its enumeration ended without a failed fetch
C19_SuccessNeedsCleanEnumerationAsStated ==
    (gate = "passed" /\ result = "True") => enum_state = "done"

\* C19 amended: a delete action that passed its gate and returned has sent
\* one wall.delete per post it was given and returns True exactly when none
\* of them was counted as an error, whether or not its enumeration ended
\* with a failed fetch; when the first fetch fails it sends no wall.delete
\* and returns True
C19_SuccessMeansNoDeleteErrors ==
    /\ (gate = "passed" /\ pc = "menu") =>
          /\ result = (IF error_count = 0 THEN "True" ELSE "False")
          /\ Len(delete_calls) = Len(posts)
          /\ deleted_count + error_count = Len(posts)
    /\ (gate = "passed" /\ enum_state = "failed" /\ offsets = <<0>>) =>
          /\ pc = "menu"
          /\ result = "True"
          /\ delete_calls = <<>>

\* C19 witness: the fast gate passed, the first fetch failed, True returned
C19_Witness ==
    /\ action = "fast"
    /\ gate = "passed"
    /\ enum_state = "failed"
    /\ offsets = <<0>>
    /\ result = "True"

\* the program with a page fetch that always returns: every
\* _make_api_request ends with a reply or, after at most 30 seconds, with
\* the timeout exception
LiveSpec == Spec /\ WF_vars(FetchPage)

\* what holds of the offsets in every state: they are 0, P, 2P, .. without
\* repetition, at most floor(N/P) + 1 of them, and the loop is still running
\* only while every page so far was a full one
EnumerationBounded ==
    /\ \A k \in 1..Len(offsets) : offsets[k] = (k - 1) * count
    /\ Len(offsets) <= (Len(wall0) \div count) + 1
    /\ pc = "enum" =>
          /\ enum_state = "running"
          /\ offset = Len(offsets) * count
          /\ all_posts = Prefix(wall0, Len(offsets) * count)
          /\ Len(all_posts) = Len(offsets) * count
    /\ EnumerationOver => pc # "enum"

\* C20: every enumeration ends: its offsets are 0, P, 2P, .. each requested
\* once, it stops at the first failed fetch, empty page or short page, and
\* so makes at most floor(N/P) + 1 fetches for a wall of N items
C20_EnumerationTerminates ==
    /\ []EnumerationBounded
    /\ (pc = "enum") ~> (pc # "enum")

\* C20 witness: an enumeration ended by the empty page after two full pages
C20_Witness ==
    /\ enum_state = "done"
    /\ count >= 2
    /\ offsets = <<0, count, 2 * count>>
    /\ response = ApiResponse(JItems(<<>>))

=============================================================================
